---- MODULE Spec2Model ----
(***************************************************************************)
(* Model of src/utils/pixelTracking.js: the debounced "Contact" tracker    *)
(* (trackContactEvent), the phone-call wrapper (handlePhoneCall) and the   *)
(* browser pieces they touch: Date.now(), window.fbq, setTimeout and       *)
(* window.location.href.                                                   *)
(*                                                                         *)
(* JavaScript values are records [t, n, s, o]: t is the typeof tag, n the  *)
(* number (in thousandths, so that 2.5 is 2500), s the characters of a     *)
(* string, o the key/value pairs of an object literal.                     *)
(***************************************************************************)
EXTENDS Integers, Sequences, FiniteSets, TLC

VARIABLES
    mono,                  \* monotonic time (ms) that drives the timers
    wall,                  \* what Date.now() returns (ms); may step back
    fbq,                   \* window.fbq: "absent", "present" or "failing"
    lastContactTrackTime,  \* window._lastContactTrackTime: <<>> (undefined) or <<t>>
    timers,                \* pending setTimeout callbacks
    navs,                  \* assignments made to window.location.href, in order
    trace,                 \* one compact entry per public call, in order
    last,                  \* the full record of the most recent public call
    status                 \* what the latest window.checkPixelStatus() logged and returned

vars == <<mono, wall, fbq, lastContactTrackTime, timers, navs, trace, last, status>>

----------------------------------------------------------------------------
(* Program constants *)

TRACK_DEBOUNCE_MS == 1000

NAV_DELAY_MS == 100

(* Bounds of the model *)

MaxCalls == 3

MaxTime == 2000

MaxWideCalls == 2

MaxPhoneLen == 3

\* How many debounce windows the clock is set back in all.
MaxBackSteps == 2

----------------------------------------------------------------------------
(* JavaScript values *)

Undef == [t |-> "undefined", n |-> 0, s |-> <<>>, o |-> <<>>]

Num(k) == [t |-> "number", n |-> k, s |-> <<>>, o |-> <<>>]

Str(cs) == [t |-> "string", n |-> 0, s |-> cs, o |-> <<>>]

Obj(kvs) == [t |-> "object", n |-> 0, s |-> <<>>, o |-> kvs]

\* A default parameter (value = 1.00, currency = 'USD') applies to undefined only.
DefaultParam(arg, dflt) == IF arg.t = "undefined" THEN dflt ELSE arg

Digit(d) == <<"0", "1", "2", "3", "4", "5", "6", "7", "8", "9">>[d + 1]

RECURSIVE IntToStr(_)
IntToStr(k) == IF k < 10 THEN <<Digit(k)>> ELSE IntToStr(k \div 10) \o <<Digit(k % 10)>>

\* Number.prototype.toFixed(2) of k thousandths: the nearest number of
\* hundredths, the larger one on a tie, as integer part, ".", two digits.
ToFixed2(k) ==
    LET cents == (k + 5) \div 10
    IN  IntToStr(cents \div 100) \o <<".">> \o <<Digit((cents \div 10) % 10), Digit(cents % 10)>>

----------------------------------------------------------------------------
(* window._lastContactTrackTime *)

\* Mutant: the guard is read back under another name, so it is always undefined.
getGlobalLastTrackTimeWrongKey(stored) == 0

\* window._lastContactTrackTime || 0 : undefined and 0 are both falsy.
getGlobalLastTrackTime(stored) ==
    IF stored = <<>> THEN 0 ELSE IF stored[1] = 0 THEN 0 ELSE stored[1]

\* Mutant: the time is stored in seconds.
setGlobalLastTrackTimeSeconds(time) == <<time \div 1000>>

setGlobalLastTrackTime(time) == <<time>>

----------------------------------------------------------------------------
(* trackContactEvent *)

Effect(k, args) == [k |-> k, args |-> args]

\* typeof window.fbq === 'function'
FbqIsFunction(hook) == hook \in {"present", "failing", "reentrant"}

\* Mutant: the window compared in tenths of a second.
DebounceActiveShort(currentTime, lastTrackTime) ==
    currentTime - lastTrackTime < TRACK_DEBOUNCE_MS \div 10

\* Mutant: <= for <.
DebounceActiveInclusive(currentTime, lastTrackTime) ==
    currentTime - lastTrackTime <= TRACK_DEBOUNCE_MS

\* Mutant: the distance between the two times, whichever is later.
DebounceActiveAbs(currentTime, lastTrackTime) ==
    IF currentTime < lastTrackTime
    THEN lastTrackTime - currentTime < TRACK_DEBOUNCE_MS
    ELSE currentTime - lastTrackTime < TRACK_DEBOUNCE_MS

\* currentTime - lastTrackTime < TRACK_DEBOUNCE_MS
DebounceActive(currentTime, lastTrackTime) ==
    currentTime - lastTrackTime < TRACK_DEBOUNCE_MS

\* Mutant: the number is passed as it is, without toFixed(2).
ContactParamsRaw(value, currency) ==
    Obj(<< <<"value", value>>, <<"currency", currency>> >>)

\* The object literal handed to fbq.
ContactParams(value, currency) ==
    Obj(<< <<"value", Str(ToFixed2(value.n))>>, <<"currency", currency>> >>)

\* What the hook is called with.
FbqCall(value, currency) ==
    Effect("fbq", <<Str(<<"t", "r", "a", "c", "k">>), Str(<<"C", "o", "n", "t", "a", "c", "t">>),
                    ContactParams(value, currency)>>)

\* Mutant: the timestamp is written by a later task, so the invocation
\* returns before its own update.
DispatchDeferred(value, currency, currentTime, stored, hook) ==
    IF value.t # "number"
    THEN [result |-> "raised", raised |-> TRUE, effects |-> <<>>, stored |-> stored]
    ELSE [result |-> "dispatched", raised |-> FALSE,
          effects |-> <<Effect("console.log", <<>>), FbqCall(value, currency)>>,
          stored |-> stored]

\* Mutant: the timestamp is set before the hook is invoked.
AtHookEarly(stored, currentTime) == setGlobalLastTrackTime(currentTime)

\* window._lastContactTrackTime while the hook runs: the hook is invoked
\* before setGlobalLastTrackTime.
AtHook(stored, currentTime) == stored

RECURSIVE Track(_, _, _, _, _)

\* The part of trackContactEvent that runs when window.fbq is a function.
\* value.toFixed exists on numbers only: any other value makes the
\* console.log line throw a TypeError before the hook is reached.  A hook
\* that throws ends the invocation where it is; a re-entrant hook calls
\* trackContactEvent() once from inside, with the plain hook in place.
Dispatch(value, currency, currentTime, stored, hook) ==
    IF value.t # "number"
    THEN [result |-> "raised", raised |-> TRUE, effects |-> <<>>, stored |-> stored]
    ELSE IF hook = "failing"
    THEN [result |-> "raised", raised |-> TRUE,
          effects |-> <<Effect("console.log", <<>>), FbqCall(value, currency)>>,
          stored |-> AtHook(stored, currentTime)]
    ELSE IF hook = "reentrant"
    THEN LET inner == Track(Undef, Undef, currentTime, AtHook(stored, currentTime), "present")
         IN  [result |-> "dispatched", raised |-> FALSE,
              effects |-> <<Effect("console.log", <<>>), FbqCall(value, currency)>>
                            \o inner.effects,
              stored |-> setGlobalLastTrackTime(currentTime)]
    ELSE [result |-> "dispatched", raised |-> FALSE,
          effects |-> <<Effect("console.log", <<>>), FbqCall(value, currency)>>,
          stored |-> setGlobalLastTrackTime(currentTime)]

\* Mutant: the guard restarts the window on every attempt.
SuppressedStamps(currentTime, stored) ==
    [result |-> "suppressed", raised |-> FALSE,
     effects |-> <<Effect("console.warn", <<>>)>>,
     stored |-> setGlobalLastTrackTime(currentTime)]

\* The double-fire guard: console.warn and return.
Suppressed(currentTime, stored) ==
    [result |-> "suppressed", raised |-> FALSE,
     effects |-> <<Effect("console.warn", <<>>)>>, stored |-> stored]

\* Mutant: the timestamp is stored after the if/else, whichever branch ran.
UnavailableStamps(currentTime, stored) ==
    [result |-> "unavailable", raised |-> FALSE,
     effects |-> <<Effect("console.error", <<>>)>>,
     stored |-> setGlobalLastTrackTime(currentTime)]

\* The else branch: console.error, nothing else.
Unavailable(currentTime, stored) ==
    [result |-> "unavailable", raised |-> FALSE,
     effects |-> <<Effect("console.error", <<>>)>>, stored |-> stored]

\* One whole invocation of trackContactEvent(valueArg, currencyArg), with
\* Date.now() = currentTime, as a function of what it reads.
Track(valueArg, currencyArg, currentTime, stored, hook) ==
    LET value == DefaultParam(valueArg, Num(1000))
        currency == DefaultParam(currencyArg, Str(<<"U", "S", "D">>))
        lastTrackTime == getGlobalLastTrackTime(stored)
    IN  IF DebounceActive(currentTime, lastTrackTime)
        THEN Suppressed(currentTime, stored)
        ELSE IF FbqIsFunction(hook)
        THEN Dispatch(value, currency, currentTime, stored, hook)
        ELSE Unavailable(currentTime, stored)

----------------------------------------------------------------------------
(* handlePhoneCall *)

\* \s of a JavaScript regular expression, as far as the alphabet goes.
WhiteSpace == {" ", "\t", "\n"}

\* Mutant: the class without the '-'.
ClassMatchesNoDash(c) == c \in WhiteSpace \/ c = "(" \/ c = ")"

\* The character class [\s-()] : white space, '-', '(' and ')'.
ClassMatches(c) == c \in WhiteSpace \/ c = "-" \/ c = "(" \/ c = ")"

\* phoneNumber.replace(/[\s-()]/g, '') : every match is dropped.
RECURSIVE ReplaceAll(_)
ReplaceAll(cs) ==
    IF cs = <<>> THEN <<>>
    ELSE IF ClassMatches(Head(cs)) THEN ReplaceAll(Tail(cs))
    ELSE <<Head(cs)>> \o ReplaceAll(Tail(cs))

\* `tel:${cleanNumber}`
TelHref(cleanNumber) == <<"t", "e", "l", ":">> \o cleanNumber

NoEvent == [given |-> FALSE, preventDefault |-> "undefined", stopPropagation |-> "undefined"]

\* Mutant: both methods are called on any event, without the typeof tests.
EventEffectsUnchecked(e) ==
    IF ~e.given THEN <<>>
    ELSE <<Effect("preventDefault", <<>>), Effect("stopPropagation", <<>>)>>

\* if (e) { if (typeof e.preventDefault === 'function') e.preventDefault();
\*          if (typeof e.stopPropagation === 'function') e.stopPropagation(); }
EventEffects(e) ==
    IF ~e.given THEN <<>>
    ELSE (IF e.preventDefault = "function" THEN <<Effect("preventDefault", <<>>)>> ELSE <<>>)
         \o (IF e.stopPropagation = "function" THEN <<Effect("stopPropagation", <<>>)>> ELSE <<>>)

\* Mutant: setTimeout without the delay.
ScheduleNow(id, t, href) == [id |-> id, setAt |-> t, due |-> t, href |-> href]

\* setTimeout(callback, 100) at monotonic time t, for call number id.
Schedule(id, t, href) == [id |-> id, setAt |-> t, due |-> t + NAV_DELAY_MS, href |-> href]

\* Mutant: the navigation is scheduled before the tracker is called.
PhoneStepsNavFirst(ev, tracking, rest) == ev \o rest \o tracking

\* The order of handlePhoneCall's body: the event, the tracker, the rest.
PhoneSteps(ev, tracking, rest) == ev \o tracking \o rest

\* One whole invocation of handlePhoneCall(phoneArg, e) as a function of what
\* it reads: what it does in order, whether it throws, the timer it sets.
Phone(phoneArg, e, id, t, currentTime, stored, hook) ==
    LET head == <<Effect("console.log", <<>>)>> \o EventEffects(e)
        tr == Track(Undef, Undef, currentTime, stored, hook)
        sofar == PhoneSteps(head, tr.effects, <<>>)
    IN  IF tr.raised
        THEN [result |-> tr.result, raised |-> TRUE, effects |-> sofar,
              stored |-> tr.stored, timer |-> <<>>]
        ELSE IF phoneArg.t # "string"
        THEN [result |-> tr.result, raised |-> TRUE, effects |-> sofar,
              stored |-> tr.stored, timer |-> <<>>]
        ELSE LET href == TelHref(ReplaceAll(phoneArg.s))
             IN  [result |-> tr.result, raised |-> FALSE,
                  effects |-> PhoneSteps(head, tr.effects,
                                         <<Effect("console.log", <<>>),
                                           Effect("setTimeout", <<Str(href), Num(NAV_DELAY_MS)>>)>>),
                  stored |-> tr.stored, timer |-> <<Schedule(id, t, href)>>]

----------------------------------------------------------------------------
(* window.checkPixelStatus *)

CheckComplete == <<"C", "h", "e", "c", "k", " ", "c", "o", "m", "p", "l", "e", "t", "e">>

\* Mutant: the helper initialises the guard it prints.
StatusCheckInitialises(stored, hook) ==
    [ret |-> Str(CheckComplete),
     fbqAvailable |-> FbqIsFunction(hook),
     dateOf |-> getGlobalLastTrackTime(stored),
     guard |-> stored,
     stored |-> setGlobalLastTrackTime(getGlobalLastTrackTime(stored))]

\* One invocation of window.checkPixelStatus(): the three values it logs,
\* the string it returns, and the guard as it leaves it.
StatusCheck(stored, hook) ==
    [ret |-> Str(CheckComplete),
     fbqAvailable |-> FbqIsFunction(hook),
     dateOf |-> getGlobalLastTrackTime(stored),
     guard |-> stored,
     stored |-> stored]

----------------------------------------------------------------------------
(* Inputs *)

EUR == Str(<<"E", "U", "R">>)

TrackArgs == { <<Undef, Undef>>, <<Num(2500), EUR>> }

MoreTrackArgs ==
    { <<Num(125), Undef>>, <<Num(12375), EUR>>, <<Undef, EUR>>, <<Num(1236), Undef>>,
      <<Num(0), EUR>> }

SamplePhone == Str(<<"+", "1", " ", "(", "8", "3", "3", ")", " ", "5", "4", "9", "-", "4", "1", "1", "3">>)

Phones == { SamplePhone }

OtherPhone == Str(<<"(", "9", "1", "1", ")">>)

TwoPhones == { SamplePhone, OtherPhone }

PropKinds == {"function", "undefined", "string"}

AllEvents ==
    {NoEvent} \cup [given : {TRUE}, preventDefault : PropKinds, stopPropagation : PropKinds]

ClickEvent == [given |-> TRUE, preventDefault |-> "function", stopPropagation |-> "function"]

Events == {NoEvent, ClickEvent}

\* Arguments outside the documented parameter types.
BadValues == { Str(<<"a">>) }

BadPhones == { Undef, Num(911000) }

PhoneAlphabet == {"+", "1", " ", "\t", "-", "(", ")", "."}

RECURSIVE SeqsUpTo(_, _)
SeqsUpTo(S, k) ==
    IF k = 0 THEN {<<>>}
    ELSE LET shorter == SeqsUpTo(S, k - 1)
         IN  shorter \cup {Append(q, c) : q \in shorter, c \in S}

AllPhones == {Str(cs) : cs \in SeqsUpTo(PhoneAlphabet, MaxPhoneLen)} \cup {SamplePhone}

----------------------------------------------------------------------------
(* State *)

\* Date.now() counts from 1970: it starts far beyond one debounce window.
StartWall == 2 * TRACK_DEBOUNCE_MS

NoCall ==
    [op |-> "none", a1 |-> Undef, a2 |-> Undef, e |-> NoEvent, at |-> 0, mono |-> 0,
     hook |-> "absent", before |-> 0, after |-> 0, result |-> "none", raised |-> FALSE,
     effects |-> <<>>, timer |-> <<>>]

Init ==
    /\ mono = 0
    /\ wall = StartWall
    /\ fbq \in {"absent", "present"}
    /\ lastContactTrackTime = <<>>
    /\ timers = {}
    /\ navs = <<>>
    /\ trace = <<>>
    /\ last = NoCall
    /\ status = <<>>

\* How many times the effects call k.
Count(effects, k) == Cardinality({i \in 1..Len(effects) : effects[i].k = k})

Entry(op, p, r) ==
    [op |-> op, phone |-> p, at |-> wall, hook |-> fbq, result |-> r.result, raised |-> r.raised,
     after |-> getGlobalLastTrackTime(r.stored), dispatches |-> Count(r.effects, "fbq")]

\* trackContactEvent(a[1], a[2])
TrackContactEvent(a) ==
    /\ Len(trace) < MaxCalls
    /\ mono <= MaxTime
    /\ LET r == Track(a[1], a[2], wall, lastContactTrackTime, fbq)
       IN  /\ lastContactTrackTime' = r.stored
           /\ trace' = Append(trace, Entry("track", Undef, r))
           /\ last' = [op |-> "track", a1 |-> a[1], a2 |-> a[2], e |-> NoEvent,
                       at |-> wall, mono |-> mono, hook |-> fbq,
                       before |-> getGlobalLastTrackTime(lastContactTrackTime),
                       after |-> getGlobalLastTrackTime(r.stored),
                       result |-> r.result, raised |-> r.raised,
                       effects |-> r.effects, timer |-> <<>>]
    /\ UNCHANGED <<mono, wall, fbq, timers, navs, status>>

\* Mutant: a call clears the navigation timer of the call before it.
AddTimersCancelling(pending, new) ==
    IF new = <<>> THEN pending ELSE {new[i] : i \in 1..Len(new)}

\* setTimeout adds a timer to the pending ones; its handle is dropped, and
\* nothing calls clearTimeout.
AddTimers(pending, new) == pending \cup {new[i] : i \in 1..Len(new)}

\* handlePhoneCall(p, e)
HandlePhoneCall(p, e) ==
    /\ Len(trace) < MaxCalls
    /\ mono <= MaxTime
    /\ LET r == Phone(p, e, Len(trace) + 1, mono, wall, lastContactTrackTime, fbq)
       IN  /\ lastContactTrackTime' = r.stored
           /\ timers' = AddTimers(timers, r.timer)
           /\ trace' = Append(trace, Entry("phone", p, r))
           /\ last' = [op |-> "phone", a1 |-> p, a2 |-> Undef, e |-> e,
                       at |-> wall, mono |-> mono, hook |-> fbq,
                       before |-> getGlobalLastTrackTime(lastContactTrackTime),
                       after |-> getGlobalLastTrackTime(r.stored),
                       result |-> r.result, raised |-> r.raised,
                       effects |-> r.effects, timer |-> r.timer]
    /\ UNCHANGED <<mono, wall, fbq, navs, status>>

\* The timer that the event loop runs next: the earliest due, oldest first.
NextTimer(t) ==
    /\ t \in timers
    /\ \A u \in timers : t.due < u.due \/ (t.due = u.due /\ t.id <= u.id)

\* The setTimeout callback: window.location.href = `tel:${cleanNumber}`
TimerFire ==
    /\ \E t \in timers :
        /\ NextTimer(t)
        /\ mono >= t.due
        /\ timers' = timers \ {t}
        /\ navs' = Append(navs, [id |-> t.id, href |-> t.href])
    /\ UNCHANGED <<mono, wall, fbq, lastContactTrackTime, trace, last, status>>

Deltas == {TRACK_DEBOUNCE_MS \div 2, TRACK_DEBOUNCE_MS}

\* Time passes.
Tick(d) ==
    /\ mono + d <= MaxTime \/ \E t \in timers : mono < t.due
    /\ mono' = mono + d
    /\ wall' = wall + d
    /\ UNCHANGED <<fbq, lastContactTrackTime, timers, navs, trace, last, status>>

\* The system clock is set back by d: Date.now() follows it, timers do not.
ClockStepBack(d) ==
    /\ (StartWall + mono - wall) + d <= MaxBackSteps * TRACK_DEBOUNCE_MS
    /\ wall' = wall - d
    /\ UNCHANGED <<mono, fbq, lastContactTrackTime, timers, navs, trace, last, status>>

\* The pixel script loads, or is blocked or removed.
SetHook(h) ==
    /\ fbq # h
    /\ fbq' = h
    /\ UNCHANGED <<mono, wall, lastContactTrackTime, timers, navs, trace, last, status>>

\* window.checkPixelStatus()
CheckPixelStatus ==
    /\ LET r == StatusCheck(lastContactTrackTime, fbq)
       IN  /\ status' = <<[ret |-> r.ret, fbqAvailable |-> r.fbqAvailable,
                            dateOf |-> r.dateOf, guard |-> r.guard]>>
           /\ lastContactTrackTime' = r.stored
    /\ UNCHANGED <<mono, wall, fbq, timers, navs, trace, last>>

Next ==
    \/ \E a \in TrackArgs : TrackContactEvent(a)
    \/ \E p \in Phones, e \in Events : HandlePhoneCall(p, e)
    \/ TimerFire
    \/ \E d \in Deltas : Tick(d)
    \/ \E h \in {"absent", "present"} : SetHook(h)

Spec == Init /\ [][Next]_vars

\* The same program with callers and a hook that break the documented types:
\* a hook that throws, a value that is no number, a phone number that is no string.
FaultyTrackArgs == TrackArgs \cup {<<v, Undef>> : v \in BadValues}

NextFaulty ==
    \/ Len(trace) < MaxWideCalls /\ \E a \in FaultyTrackArgs : TrackContactEvent(a)
    \/ Len(trace) < MaxWideCalls
         /\ \E p \in Phones \cup BadPhones, e \in Events : HandlePhoneCall(p, e)
    \/ TimerFire
    \/ \E d \in Deltas : Tick(d)
    \/ \E h \in {"absent", "present", "failing"} : SetHook(h)

SpecFaulty == Init /\ [][NextFaulty]_vars

\* At most MaxWideCalls calls, with every argument shape.
NextInputs ==
    \/ Len(trace) < MaxWideCalls /\ \E a \in TrackArgs \cup MoreTrackArgs : TrackContactEvent(a)
    \/ Len(trace) < MaxWideCalls /\ \E e \in AllEvents : HandlePhoneCall(SamplePhone, e)
    \/ TimerFire
    \/ \E d \in Deltas : Tick(d)
    \/ \E h \in {"absent", "present"} : SetHook(h)

SpecInputs == Init /\ [][NextInputs]_vars

\* One handlePhoneCall, with every phone number of the alphabet.
NextClean ==
    \/ trace = <<>> /\ \E p \in AllPhones : HandlePhoneCall(p, ClickEvent)
    \/ TimerFire
    \/ \E d \in Deltas : Tick(d)

SpecClean == Init /\ [][NextClean]_vars

\* The tracker and the console helper together, for at most MaxWideCalls calls.
NextStatus ==
    \/ Len(trace) < MaxWideCalls /\ \E a \in TrackArgs : TrackContactEvent(a)
    \/ Len(trace) < MaxWideCalls /\ \E p \in Phones, e \in Events : HandlePhoneCall(p, e)
    \/ CheckPixelStatus
    \/ TimerFire
    \/ \E d \in Deltas : Tick(d)
    \/ \E h \in {"absent", "present"} : SetHook(h)

SpecStatus == Init /\ [][NextStatus]_vars

\* Phone links clicked one after another on a page whose hook stays as it
\* was loaded, with the event loop running every timer that is due and time
\* passing while a timer is pending.
NextPhones ==
    \/ \E p \in TwoPhones : HandlePhoneCall(p, ClickEvent)
    \/ TimerFire
    \/ \E d \in Deltas : Tick(d)

SpecPhones ==
    /\ Init
    /\ [][NextPhones]_vars
    /\ WF_vars(TimerFire)
    /\ WF_vars(\E d \in Deltas : Tick(d))

\* The tracker under hooks of every kind: absent, plain, throwing, and
\* calling back into the tracker.
NextHooks ==
    \/ \E a \in TrackArgs : TrackContactEvent(a)
    \/ \E d \in Deltas : Tick(d)
    \/ \E h \in {"absent", "present", "failing", "reentrant"} : SetHook(h)

SpecHooks == Init /\ [][NextHooks]_vars

\* The tracker under a clock that is set back now and then.
NextClock ==
    \/ \E a \in TrackArgs : TrackContactEvent(a)
    \/ \E d \in Deltas : Tick(d)
    \/ \E d \in Deltas : ClockStepBack(d)
    \/ \E h \in {"absent", "present"} : SetHook(h)

SpecClock == Init /\ [][NextClock]_vars

----------------------------------------------------------------------------
(* Properties *)

Calls == 1..Len(trace)

Abs(x) == IF x < 0 THEN -x ELSE x

\* C1: at most one dispatch per debounce window: no call invokes the hook
\* more than once, and any two calls that invoked the hook sampled times
\* that differ by at least TRACK_DEBOUNCE_MS.
C1_OneDispatchPerWindow ==
    /\ \A i \in Calls : trace[i].dispatches <= 1
    /\ \A i, j \in Calls :
          (i < j /\ trace[i].dispatches > 0 /\ trace[j].dispatches > 0)
              => Abs(trace[j].at - trace[i].at) >= TRACK_DEBOUNCE_MS

\* Two dispatches, by both operations, with a suppressed call and a call
\* without the hook in the same run.
C1_Witness ==
    /\ Len(trace) = MaxCalls
    /\ \E i, j \in Calls :
          /\ i < j
          /\ trace[i].dispatches = 1 /\ trace[j].dispatches = 1
          /\ trace[i].op # trace[j].op
    /\ \E k \in Calls : trace[k].result \in {"suppressed", "unavailable"}

\* The calls 1..i are trackContactEvent calls made with the hook available,
\* each at least TRACK_DEBOUNCE_MS after the one before.
SpacedUpTo(i) ==
    \A j \in 1..i :
        /\ trace[j].op = "track"
        /\ trace[j].hook = "present"
        /\ j > 1 => trace[j].at - trace[j - 1].at >= TRACK_DEBOUNCE_MS

\* C2: in a run of trackContactEvent calls from the initial state, made with
\* the hook available and each at least TRACK_DEBOUNCE_MS after the previous
\* one, every call makes exactly one dispatch (and stores its own time).
C2_SpacedCallsDispatch ==
    \A i \in Calls :
        SpacedUpTo(i) =>
            /\ trace[i].dispatches = 1
            /\ trace[i].result = "dispatched"
            /\ trace[i].after = trace[i].at

C2_Witness ==
    /\ Len(trace) = 3
    /\ SpacedUpTo(3)
    /\ trace[2].at - trace[1].at = TRACK_DEBOUNCE_MS
    /\ trace[3].dispatches = 1

\* The calls 1..i are trackContactEvent calls made with the hook available,
\* each less than TRACK_DEBOUNCE_MS after the one before.
RapidUpTo(i) ==
    \A j \in 1..i :
        /\ trace[j].op = "track"
        /\ trace[j].hook = "present"
        /\ j > 1 => trace[j].at - trace[j - 1].at < TRACK_DEBOUNCE_MS

\* Only the first of the calls 1..i dispatched; the later ones were
\* suppressed and left the timestamp where the first call put it.
OnlyFirstDispatched(i) ==
    /\ trace[1].dispatches = 1
    /\ trace[1].after = trace[1].at
    /\ \A j \in 2..i :
          /\ trace[j].dispatches = 0
          /\ trace[j].result = "suppressed"
          /\ trace[j].after = trace[1].after

\* C3 as stated, read with the hook available at every call: in a run of
\* trackContactEvent calls each made less than TRACK_DEBOUNCE_MS after the
\* previous one, only the first dispatches.
C3_AsStated == \A i \in Calls : RapidUpTo(i) => OnlyFirstDispatched(i)

\* The calls 1..i are trackContactEvent calls, the first made with the hook
\* available, each later one less than TRACK_DEBOUNCE_MS after the first.
BurstUpTo(i) ==
    /\ trace[1].hook = "present"
    /\ \A j \in 1..i :
          /\ trace[j].op = "track"
          /\ j > 1 => trace[j].at - trace[1].at < TRACK_DEBOUNCE_MS

\* C3, amended: in a run of trackContactEvent calls whose first is made with
\* the hook available and whose later calls are each made less than
\* TRACK_DEBOUNCE_MS after the first, only the first dispatches; every later
\* call is suppressed and leaves the timestamp at the first call's time.
C3_BurstDispatchesOnce == \A i \in Calls : BurstUpTo(i) => OnlyFirstDispatched(i)

C3_Witness ==
    /\ Len(trace) = 3
    /\ BurstUpTo(3)
    /\ trace[2].at > trace[1].at
    /\ trace[3].hook = "present"
    /\ trace[3].result = "suppressed"

\* C4: a call made while window.fbq is no function does not invoke the hook
\* and leaves window._lastContactTrackTime as it was.
C4_AbsentHookNoChange ==
    [][(trace' # trace /\ fbq = "absent") =>
          /\ lastContactTrackTime' = lastContactTrackTime
          /\ Count(last'.effects, "fbq") = 0
          /\ last'.after = last'.before]_vars

\* A call without the hook, outside the debounce window of an earlier dispatch.
C4_Witness ==
    /\ last.op = "track"
    /\ last.hook = "absent"
    /\ last.result = "unavailable"
    /\ last.before > 0
    /\ lastContactTrackTime = <<last.before>>

\* The effects that make up a tracking attempt: the dispatch, or the
\* diagnostic of a suppressed or hookless call.
TrackingKinds == {"fbq", "console.warn", "console.error"}

Positions(effects, K) == {i \in 1..Len(effects) : effects[i].k \in K}

\* The navigation of call number id is pending or has been made.
NavigationSet(id) ==
    \/ \E t \in timers : t.id = id
    \/ \E k \in 1..Len(navs) : navs[k].id = id

\* C5 as stated: no public call raises to its caller, whatever its
\* arguments and whatever the hook does.
C5_NoCallRaises == \A i \in Calls : ~trace[i].raised

SampleHref ==
    <<"t", "e", "l", ":", "+", "1", "8", "3", "3", "5", "4", "9", "4", "1", "1", "3">>

C6_Order ==
    last.op = "phone" =>
        LET fx == last.effects
            sched == Positions(fx, {"setTimeout"})
            tracking == Positions(fx, TrackingKinds)
        IN  /\ tracking # {}
            /\ \A k \in tracking, n \in sched : k < n
            /\ (last.hook = "present" /\ last.at - last.before >= TRACK_DEBOUNCE_MS) =>
                  /\ Count(fx, "fbq") = 1
                  /\ Cardinality(sched) = 1
                  /\ fx[Len(fx)] = Effect("setTimeout", <<Str(SampleHref), Num(100)>>)
                  /\ Len(last.timer) = 1
                  /\ last.timer[1].href = SampleHref

C6_Step ==
    /\ navs' # navs =>
          \E t \in timers :
              /\ timers' = timers \ {t}
              /\ navs' = Append(navs, [id |-> t.id, href |-> t.href])
              /\ mono >= t.setAt + 100
    /\ (trace' # trace /\ last'.op = "phone" /\ fbq = "present"
          /\ wall - getGlobalLastTrackTime(lastContactTrackTime) >= TRACK_DEBOUNCE_MS) =>
          /\ Cardinality(timers') = Cardinality(timers) + 1
          /\ \E t \in timers' \ timers : t.id = Len(trace') /\ t.href = SampleHref
          /\ trace'[Len(trace')].dispatches = 1

\* C6: in every handlePhoneCall the tracking attempt comes before the
\* setTimeout call; a navigation is made only by a timer, no earlier than
\* 100ms after its call; and a call made with the hook present and the
\* debounce window over makes exactly one dispatch and sets exactly one timer.
C6_TrackThenNavigate == []C6_Order /\ [][C6_Step]_vars

\* A dispatching handlePhoneCall whose navigation has been made.
C6_Witness ==
    /\ last.op = "phone"
    /\ last.result = "dispatched"
    /\ last.before > 0
    /\ \E k \in 1..Len(navs) : navs[k] = [id |-> Len(trace), href |-> SampleHref]

\* C7 as stated, as far as a finite run shows it: after every
\* handlePhoneCall given a phone number string, the navigation of that call
\* is pending or made, whatever became of the tracking attempt.
C7_EveryCallNavigates ==
    (last.op = "phone" /\ last.a1.t = "string") => NavigationSet(Len(trace))

Stripped == {" ", "\t", "\n", "-", "(", ")"}

IsKept(c) == c \notin Stripped

\* C8: the navigation target is "tel:" followed by the characters of the
\* phone number that are no white space, '-', '(' or ')', in their order.
C8_TelTarget ==
    last.op = "phone" =>
        LET want == <<"t", "e", "l", ":">> \o SelectSeq(last.a1.s, IsKept)
        IN  /\ Len(last.timer) = 1
            /\ last.timer[1].href = want
            /\ last.a1 = SamplePhone => want = SampleHref
            /\ \A t \in timers : t.href = want
            /\ \A k \in 1..Len(navs) : navs[k].href = want
            /\ NavigationSet(1)

C8_Witness ==
    /\ last.a1 = SamplePhone
    /\ navs = <<[id |-> 1, href |-> SampleHref]>>

USD == Str(<<"U", "S", "D">>)

\* The value argument as a string with two decimals.
TwoDecimals(v) ==
    CASE v = Undef -> <<"1", ".", "0", "0">>
      [] v = Num(2500) -> <<"2", ".", "5", "0">>
      [] v = Num(125) -> <<"0", ".", "1", "3">>
      [] v = Num(12375) -> <<"1", "2", ".", "3", "8">>
      [] v = Num(1236) -> <<"1", ".", "2", "4">>
      [] v = Num(0) -> <<"0", ".", "0", "0">>

\* C9: a dispatch calls the hook with "track", "Contact" and an object whose
\* value is the value argument as a string with two decimals (1.00 when
\* omitted) and whose currency is the currency argument (USD when omitted).
C9_Payload ==
    \A i \in Positions(last.effects, {"fbq"}) :
        LET v == IF last.op = "track" THEN last.a1 ELSE Undef
            c == IF last.op = "track" THEN last.a2 ELSE Undef
        IN  last.effects[i].args =
                <<Str(<<"t", "r", "a", "c", "k">>), Str(<<"C", "o", "n", "t", "a", "c", "t">>),
                  Obj(<< <<"value", Str(TwoDecimals(v))>>,
                         <<"currency", IF c = Undef THEN USD ELSE c>> >>)>>

\* trackContactEvent(2.5, "EUR") dispatched, after an earlier call dispatched
\* with other arguments.
C9_Witness ==
    /\ Len(trace) = 2
    /\ trace[1].dispatches = 1
    /\ last.a1 = Num(2500) /\ last.a2 = EUR
    /\ last.result = "dispatched"

\* C10: handlePhoneCall calls preventDefault once exactly when the event has
\* it as a function, and stopPropagation likewise, both before the tracking
\* attempt; whatever the event lacks, the call does not throw, attempts the
\* tracking and sets its navigation timer.
C10_EventProbed ==
    last.op = "phone" =>
        LET fx == last.effects
            e == last.e
            onEvent == Positions(fx, {"preventDefault", "stopPropagation"})
            tracking == Positions(fx, TrackingKinds)
        IN  /\ Count(fx, "preventDefault") =
                  (IF e.given /\ e.preventDefault = "function" THEN 1 ELSE 0)
            /\ Count(fx, "stopPropagation") =
                  (IF e.given /\ e.stopPropagation = "function" THEN 1 ELSE 0)
            /\ \A i \in onEvent, k \in tracking : i < k
            /\ ~last.raised
            /\ Cardinality(tracking) = 1
            /\ Count(fx, "setTimeout") = 1
            /\ NavigationSet(Len(trace))

\* An event with only one of the two methods, on a dispatching call.
C10_Witness ==
    /\ last.op = "phone"
    /\ last.e.given
    /\ last.e.preventDefault = "string"
    /\ last.e.stopPropagation = "function"
    /\ last.result = "dispatched"

\* C11: window.checkPixelStatus() returns "Check complete" and reports what
\* it finds; it leaves the timestamp, the hook, the timers and the
\* navigations as they are, invokes no hook and counts as no call, so the
\* tracker goes on from the very state it was in.
C11_StatusIsObservation ==
    [][status' # status =>
          /\ UNCHANGED <<mono, wall, fbq, lastContactTrackTime, timers, navs, trace, last>>
          /\ status'[1].ret = Str(CheckComplete)
          /\ status'[1].fbqAvailable = (fbq = "present")
          /\ status'[1].guard = lastContactTrackTime]_vars

\* The helper was called before any dispatch and again between two calls of
\* the tracker, the later of which dispatched.
C11_Witness ==
    /\ status # <<>>
    /\ status[1].guard # <<>>
    /\ status[1].fbqAvailable
    /\ Len(trace) = 2
    /\ status[1].guard[1] = trace[1].at
    /\ trace[2].result = "dispatched"
    /\ trace[2].at > trace[1].at

\* The calls that dispatched and stored their time.
Dispatched == {i \in Calls : trace[i].result = "dispatched"}

DispatchedBefore(i) == {j \in Dispatched : j < i}

Latest(S) == CHOOSE i \in S : \A j \in S : j <= i

\* The timestamp that call i found.
Before(i) == IF i = 1 THEN 0 ELSE trace[i - 1].after

\* C12: window._lastContactTrackTime is undefined (read as 0) until a call
\* dispatches, and from then on holds the time sampled by the latest call
\* that dispatched; a call that did not dispatch leaves the timestamp it
\* found, and so do timers, time and the hook coming and going.
C12_StampIsLastDispatch ==
    /\ Dispatched = {} => lastContactTrackTime = <<>>
    /\ Dispatched # {} => lastContactTrackTime = <<trace[Latest(Dispatched)].at>>
    /\ getGlobalLastTrackTime(lastContactTrackTime) =
          (IF Dispatched = {} THEN 0 ELSE trace[Latest(Dispatched)].at)
    /\ \A i \in Calls : trace[i].result # "dispatched" => trace[i].after = Before(i)

\* Two dispatches, the first by a handlePhoneCall whose navigation was made,
\* then a call without the hook outside the window.
C12_Witness ==
    /\ Len(trace) = 3
    /\ trace[1].op = "phone" /\ trace[1].result = "dispatched"
    /\ trace[2].result = "dispatched"
    /\ trace[3].result = "unavailable"
    /\ navs # <<>>
    /\ lastContactTrackTime = <<trace[2].at>>

\* C13: a suppressed call invokes no hook and leaves the timestamp, so a
\* call made with the hook present at least TRACK_DEBOUNCE_MS after the
\* latest dispatch dispatches, however recent the suppressed calls between.
C13_WindowFromLastDispatch ==
    \A i \in Calls :
        /\ trace[i].result = "suppressed" =>
              (trace[i].dispatches = 0 /\ trace[i].after = Before(i))
        /\ (/\ trace[i].hook = "present"
            /\ DispatchedBefore(i) # {}
            /\ trace[i].at - trace[Latest(DispatchedBefore(i))].at >= TRACK_DEBOUNCE_MS) =>
              (trace[i].result = "dispatched" /\ trace[i].dispatches = 1)

\* A dispatch, a suppressed call, and a dispatch less than a window after
\* the suppressed call.
C13_Witness ==
    /\ Len(trace) = 3
    /\ trace[1].result = "dispatched"
    /\ trace[2].result = "suppressed"
    /\ trace[3].result = "dispatched"
    /\ trace[3].at - trace[2].at < TRACK_DEBOUNCE_MS

\* Call i is the first call made once the hook is available: the hook is
\* present at it and was absent at the call before, if there was one.
FirstWithHook(i) ==
    /\ trace[i].hook = "present"
    /\ i > 1 => trace[i - 1].hook = "absent"

\* Call k comes at least TRACK_DEBOUNCE_MS after the latest dispatch made
\* before call i, or no call dispatched before call i.
OutsideWindow(k, i) ==
    \/ DispatchedBefore(i) = {}
    \/ trace[k].at - trace[Latest(DispatchedBefore(i))].at >= TRACK_DEBOUNCE_MS

\* The calls from call i on that are made less than TRACK_DEBOUNCE_MS after it.
Burst(i) == {j \in i..Len(trace) : trace[j].at - trace[i].at < TRACK_DEBOUNCE_MS}

DispatchesIn(S) == Cardinality({j \in S : trace[j].dispatches > 0})

\* The first call with the hook dispatches iff it is outside the window of
\* the latest actual dispatch, whatever attempts failed in between.
FirstDispatchesIff(i) == (trace[i].result = "dispatched") <=> OutsideWindow(i, i)

\* C14 as stated, where the trace fixes the time the hook appeared (the
\* call before was made without the hook at the same clock reading) and the
\* burst is over: the first call with the hook dispatches iff it is outside
\* the window, and exactly one call of the burst dispatches.
C14_AsStated ==
    \A i \in Calls :
        (FirstWithHook(i) /\ i > 1 /\ trace[i - 1].at = trace[i].at) =>
            /\ FirstDispatchesIff(i)
            /\ wall >= trace[i].at + TRACK_DEBOUNCE_MS => DispatchesIn(Burst(i)) = 1

\* C14, amended: the first call made once the hook is available dispatches
\* iff it is outside the window of the latest actual dispatch, however
\* recent the failed attempts; of the burst after it at most one call
\* dispatches, and exactly one does when the hook stays present and some
\* call of the burst is outside that window.
C14_FailedAttemptsKeepWindow ==
    \A i \in Calls :
        FirstWithHook(i) =>
            /\ FirstDispatchesIff(i)
            /\ DispatchesIn(Burst(i)) <= 1
            /\ (/\ \A j \in Burst(i) : trace[j].hook = "present"
                /\ \E k \in Burst(i) : OutsideWindow(k, i)) =>
                  DispatchesIn(Burst(i)) = 1

\* An attempt that failed for want of the hook, then, less than a window
\* later, a burst of two calls with the hook: the first dispatched.
C14_Witness ==
    /\ Len(trace) = 3
    /\ trace[1].result = "unavailable"
    /\ FirstWithHook(2)
    /\ trace[2].at - trace[1].at < TRACK_DEBOUNCE_MS
    /\ trace[2].result = "dispatched"
    /\ trace[3].hook = "present"
    /\ trace[3].at > trace[2].at
    /\ 3 \in Burst(2)
    /\ trace[3].result = "suppressed"

\* The tel: URI of the phone number given to call i.
OwnHref(i) == <<"t", "e", "l", ":">> \o SelectSeq(trace[i].phone.s, IsKept)

PendingOf(i) == {t \in timers : t.id = i}

MadeOf(i) == {k \in 1..Len(navs) : navs[k].id = i}

\* The calls from a dispatching call i on that fall in the window it opened.
Window(i) == {j \in i..Len(trace) : trace[j].at - trace[i].at < TRACK_DEBOUNCE_MS}

C15_OneTimerEach ==
    /\ \A i \in Calls :
          /\ Cardinality(PendingOf(i)) + Cardinality(MadeOf(i)) = 1
          /\ \A t \in PendingOf(i) : t.href = OwnHref(i)
          /\ \A k \in MadeOf(i) : navs[k].href = OwnHref(i)
    /\ \A i \in Dispatched : DispatchesIn(Window(i)) = 1
    /\ last.op = "phone" => Count(last.effects, "setTimeout") = 1

C15_NeverCancelled ==
    /\ \A t \in timers :
          t \in timers' \/ navs' = Append(navs, [id |-> t.id, href |-> t.href])
    /\ trace' # trace => (timers \subseteq timers' /\ navs' = navs)

C15_StillFires ==
    \A i \in 1..MaxCalls : (PendingOf(i) # {}) ~> (MadeOf(i) # {})

\* C15: every handlePhoneCall sets exactly one timer, for the tel: URI of
\* its own phone number; the calls in the window of a dispatch make that one
\* dispatch between them; no step removes a pending timer but its firing,
\* which makes its navigation; and every pending navigation is made in the end,
\* whatever calls come after it.
C15_EveryCallNavigatesOnce ==
    []C15_OneTimerEach /\ [][C15_NeverCancelled]_vars /\ C15_StillFires

\* Three calls in one debounce window, the second made while the timer of
\* the first was pending, for two phone numbers: one dispatch, three
\* navigations, each to the number of its call.
C15_Witness ==
    /\ Len(trace) = 3
    /\ \A i \in Calls : trace[i].hook = "present"
    /\ trace[1].at = trace[2].at
    /\ trace[3].at - trace[1].at < TRACK_DEBOUNCE_MS
    /\ trace[1].phone # trace[2].phone
    /\ <<trace[1].dispatches, trace[2].dispatches, trace[3].dispatches>> = <<1, 0, 0>>
    /\ Len(navs) = 3
    /\ \A i \in Calls : \E k \in 1..Len(navs) : navs[k] = [id |-> i, href |-> OwnHref(i)]
    /\ timers = {}

\* Calls i and i + 1 sampled the same time, both with the hook present.
SameTick(i) ==
    /\ i + 1 \in Calls
    /\ trace[i].at = trace[i + 1].at
    /\ trace[i].hook = "present"
    /\ trace[i + 1].hook = "present"

\* C16 as stated: two calls in the same tick with the hook present yield
\* exactly one dispatch, the second being suppressed.
C16_AsStated ==
    \A i \in Calls :
        SameTick(i) =>
            /\ trace[i].dispatches + trace[i + 1].dispatches = 1
            /\ trace[i + 1].result = "suppressed"

C16_SameTick ==
    \A i \in Calls :
        SameTick(i) =>
            /\ trace[i + 1].result = "suppressed"
            /\ trace[i + 1].dispatches = 0
            /\ trace[i + 1].after = trace[i].after
            /\ trace[i].dispatches <= 1
            /\ (trace[i].dispatches = 1) <=> OutsideWindow(i, i)
            /\ trace[i].dispatches = 1 => trace[i].after = trace[i].at

C16_WholeInvocations ==
    /\ lastContactTrackTime' # lastContactTrackTime =>
          /\ trace' = Append(trace, trace'[Len(trace')])
          /\ trace'[Len(trace')].dispatches = 1
          /\ lastContactTrackTime' = <<wall>>
    /\ trace' # trace =>
          /\ Len(trace') = Len(trace) + 1
          /\ trace'[Len(trace')].dispatches = 1 => lastContactTrackTime' = <<wall>>
          /\ navs' = navs
    /\ navs' # navs => UNCHANGED <<lastContactTrackTime, trace, last>>

\* C16, amended: every invocation runs as one step, in which the hook is
\* invoked iff the timestamp is set, and a timer callback changes neither;
\* of two calls that sampled the same time with the hook present the second
\* is suppressed, and the first dispatches iff it is outside the window of
\* the latest dispatch before it: one dispatch between them then, none otherwise.
C16_Serialized == []C16_SameTick /\ [][C16_WholeInvocations]_vars

\* Two calls in one tick, outside the window of an earlier dispatch: the
\* first dispatched, the second was suppressed.
C16_Witness ==
    /\ Len(trace) = 3
    /\ SameTick(2)
    /\ trace[1].dispatches = 1
    /\ trace[2].result = "dispatched"
    /\ trace[3].result = "suppressed"
    /\ last.before = last.at

\* The last call found a function as hook, outside the debounce window.
ReachedHook(kind) ==
    /\ last.op = "track"
    /\ last.hook = kind
    /\ last.at - last.before >= TRACK_DEBOUNCE_MS

\* C17: a dispatching invocation leaves the timestamp at the time it
\* sampled; an invocation whose hook raises has invoked the hook once and
\* leaves the timestamp as it found it, so that the next call is judged
\* against the old timestamp; a call made from inside the hook is not
\* suppressed: the hook is invoked twice, with no debounce warning.
C17_HookBeforeStamp ==
    /\ \A i \in Calls :
          /\ trace[i].result = "dispatched" => trace[i].after = trace[i].at
          /\ trace[i].raised => (trace[i].dispatches = 1 /\ trace[i].after = Before(i))
    /\ ReachedHook("present") =>
          /\ last.result = "dispatched"
          /\ Positions(last.effects, {"fbq"}) = {2}
    /\ ReachedHook("failing") =>
          /\ last.raised
          /\ Count(last.effects, "fbq") = 1
          /\ last.after = last.before
          /\ lastContactTrackTime = IF last.before = 0 THEN <<>> ELSE <<last.before>>
    /\ ReachedHook("reentrant") =>
          /\ last.result = "dispatched"
          /\ Count(last.effects, "fbq") = 2
          /\ Count(last.effects, "console.warn") = 0
          /\ last.after = last.at

\* A dispatch, then a call whose hook raised and left the timestamp of
\* that dispatch, then a call whose hook called back and dispatched twice.
C17_Witness ==
    /\ Len(trace) = 3
    /\ trace[1].result = "dispatched"
    /\ trace[2].hook = "failing"
    /\ trace[2].raised
    /\ trace[2].at >= trace[1].at + TRACK_DEBOUNCE_MS
    /\ trace[2].after = trace[1].at
    /\ ReachedHook("reentrant")
    /\ last.before = trace[1].at
    /\ trace[3].dispatches = 2
    /\ last.after = last.at

C18_Suppressed ==
    /\ \A i \in Calls :
          /\ trace[i].after >= Before(i)
          /\ trace[i].after # Before(i) =>
                (trace[i].after = trace[i].at /\ trace[i].dispatches = 1)
          /\ trace[i].at < Before(i) + TRACK_DEBOUNCE_MS =>
                (trace[i].result = "suppressed" /\ trace[i].dispatches = 0
                    /\ trace[i].after = Before(i))
    /\ last.op = "track" => last.before = Before(Len(trace))

C18_Raised ==
    lastContactTrackTime' # lastContactTrackTime =>
        getGlobalLastTrackTime(lastContactTrackTime')
            >= getGlobalLastTrackTime(lastContactTrackTime) + TRACK_DEBOUNCE_MS

\* C18: every change of the stored timestamp raises it by at least
\* TRACK_DEBOUNCE_MS, also when Date.now() has been set back; and every call
\* that samples a time under the stored timestamp plus TRACK_DEBOUNCE_MS,
\* under the timestamp itself included, is suppressed and leaves it.
C18_StampNeverDecreases == []C18_Suppressed /\ [][C18_Raised]_vars

\* The clock was set back behind the timestamp of a dispatch; a call with
\* the hook present, a full window of running time after that dispatch,
\* was suppressed.
C18_Witness ==
    /\ Len(trace) = 2
    /\ trace[1].result = "dispatched"
    /\ last.hook = "present"
    /\ last.at < last.before
    /\ last.mono >= TRACK_DEBOUNCE_MS
    /\ last.result = "suppressed"
    /\ lastContactTrackTime = <<trace[1].at>>

====
